---- MODULE Spec2Model ----
(***************************************************************************)
(* Triage session manager and risk scorer of backend/routes/triage.py.     *)
(*                                                                         *)
(* The database tables triage_sessions and symptoms are sequences whose    *)
(* index is the autoincrement primary key; the symptom and red-flag        *)
(* catalogs are read by the three triage handlers and never written by     *)
(* them.  Every request handler runs to completion as one action           *)
(* (specification Spec).  Each handler is an operator from the tables and  *)
(* the request to the tables after the commit and the HTTP response.       *)
(*                                                                         *)
(* calculate_risk_score is a pure function.  Specification SpecScore       *)
(* applies it to the symptom lists and red-flag catalogs of a bounded      *)
(* set; scoring holds the arguments of the call and what it returned.      *)
(*                                                                         *)
(* Specification SpecInterleaved runs the handlers of two requests at a    *)
(* time, each with its own database session: a handler advances from one   *)
(* database read or commit to the next, and the other request may read or  *)
(* commit in between.  requests holds what each request has loaded and     *)
(* what it returned; arrivals counts the requests received.                *)
(***************************************************************************)
EXTENDS Integers, Sequences, FiniteSets, TLC

VARIABLES triage_sessions, symptoms, red_flags, response, scoring, requests, arrivals

vars == <<triage_sessions, symptoms, red_flags, response, scoring, requests, arrivals>>

(***************************************************************************)
(* Bounds of the model.                                                    *)
(***************************************************************************)
MaxSessions == 2
MaxTime == 2
MaxScored == 3
MaxFlags == 2
MaxRequests == 4

(***************************************************************************)
(* Absent values (SQL NULL / no row / no such field in the response).      *)
(***************************************************************************)
NoSession == 0
NoPatient == 0
NoTime == 0
NoScore == [m |-> <<>>, e |-> 0]
NoResult == "None"

(***************************************************************************)
(* Users and patient profiles: supplied by the authentication layer,      *)
(* which creates a patient profile with every patient-role user.  Users 1  *)
(* and 2 are patients with profiles 1 and 2, user 3 is a doctor.           *)
(***************************************************************************)
Users == 1..3

role(u) == IF u = 3 THEN "doctor" ELSE "patient"

PatientOf(u) == IF u \in {1, 2} THEN u ELSE NoPatient

Patients == {1, 2}

(***************************************************************************)
(* Symptom.severity is 1..10 (schemas.SymptomBase); the largest weight of  *)
(* a risk level is 5.                                                      *)
(***************************************************************************)
MaxSeverity == 10

MaxWeight == 5

(***************************************************************************)
(* Sequences.                                                              *)
(***************************************************************************)
RECURSIVE SumSeq(_)
SumSeq(s) == IF s = <<>> THEN 0 ELSE Head(s) + SumSeq(Tail(s))

Range(s) == {s[i] : i \in 1..Len(s)}

(***************************************************************************)
(* Python floats: IEEE 754 binary64, round to nearest, ties to even.       *)
(* A natural number is a sequence of limbs of LimbBits bits, least         *)
(* significant first.  A positive double is [m |-> mantissa, e |-> exp]    *)
(* with value m * 2^e and 2^52 <= m < 2^53, held in MantissaLimbs limbs;   *)
(* zero has mantissa 0.  Only the operations of the scorer are modelled:   *)
(* int -> float, division and multiplication by a small integer, <, and    *)
(* round(x, 2).                                                            *)
(***************************************************************************)
LimbBits == 15

Base == 2^LimbBits

MantissaBits == 53

MantissaLimbs == 4

ExtraLimbs == 4

Limb(N, i) == IF i \in 1..Len(N) THEN N[i] ELSE 0

Zeros(n) == [i \in 1..n |-> 0]

\* quotient and remainder of N by the small integer k (long division)
RECURSIVE DivLimbs(_, _)
DivLimbs(N, k) ==
    IF N = <<>> THEN [q |-> <<>>, r |-> 0]
    ELSE LET upper == DivLimbs(Tail(N), k)
             cur == upper.r * Base + Head(N)
         IN  [q |-> <<cur \div k>> \o upper.q, r |-> cur % k]

\* N * k + carry for the small integer k
RECURSIVE MulLimbs(_, _, _)
MulLimbs(N, k, carry) ==
    IF N = <<>> THEN (IF carry = 0 THEN <<>> ELSE <<carry>>)
    ELSE LET cur == Head(N) * k + carry
         IN  <<cur % Base>> \o MulLimbs(Tail(N), k, cur \div Base)

RECURSIVE IncLimbs(_)
IncLimbs(N) ==
    IF N = <<>> THEN <<1>>
    ELSE IF Head(N) + 1 < Base THEN <<Head(N) + 1>> \o Tail(N)
    ELSE <<0>> \o IncLimbs(Tail(N))

\* the number of bits of N
TopIndex(N) ==
    CHOOSE i \in 0..Len(N) : /\ i # 0 => N[i] # 0
                             /\ \A j \in (i + 1)..Len(N) : N[j] = 0

LimbLength(v) == CHOOSE c \in 1..LimbBits : 2^(c - 1) <= v /\ v < 2^c

BitLengthAt(N, top) ==
    IF top = 0 THEN 0 ELSE LimbBits * (top - 1) + LimbLength(N[top])

BitLength(N) == BitLengthAt(N, TopIndex(N))

\* bit i of N, bit 0 the least significant
Bit(N, i) == (Limb(N, (i \div LimbBits) + 1) \div 2^(i % LimbBits)) % 2

\* some bit below bit c of N is set
LowBitsSet(N, c) ==
    \/ \E i \in 1..(c \div LimbBits) : Limb(N, i) # 0
    \/ Limb(N, (c \div LimbBits) + 1) % 2^(c % LimbBits) # 0

\* the low MantissaLimbs limbs of N \div 2^d
ShiftRight(N, d) ==
    LET a == d \div LimbBits
        b == d % LimbBits
    IN  [j \in 1..MantissaLimbs |->
           (Limb(N, a + j) \div 2^b) + (Limb(N, a + j + 1) % 2^b) * 2^(LimbBits - b)]

FZero == [m |-> Zeros(MantissaLimbs), e |-> 0]

\* the most significant limb of the mantissa 2^52
TopLimb == 2^(MantissaBits - LimbBits * (MantissaLimbs - 1) - 1)

\* the bits dropped below bit d are more than half of bit d, or half of it
\* and the kept mantissa is odd
RoundsUp(N, d, sticky, odd) ==
    Bit(N, d - 1) = 1 /\ (sticky \/ LowBitsSet(N, d - 1) \/ odd)

Rounded(kept, up) == IF up THEN IncLimbs(kept) ELSE kept

\* a mantissa rounded up to 2^53 is 2^52 with the next exponent
Renormalised(m, e) ==
    IF m[MantissaLimbs] = 2 * TopLimb
    THEN [m |-> [m EXCEPT ![MantissaLimbs] = TopLimb], e |-> e + 1]
    ELSE [m |-> m, e |-> e]

RoundKept(N, e, sticky, d, kept) ==
    Renormalised(Rounded(kept, RoundsUp(N, d, sticky, kept[1] % 2 = 1)), e + d)

RoundAt(N, e, sticky, d) == RoundKept(N, e, sticky, d, ShiftRight(N, d))

\* the double nearest to N * 2^e (plus a fraction of 2^e when sticky), for a
\* natural N of more than MantissaBits bits: ties go to the even mantissa
RoundToDouble(N, e, sticky) ==
    IF TopIndex(N) = 0 THEN FZero
    ELSE RoundAt(N, e, sticky, BitLength(N) - MantissaBits)

\* float(n) for an int 0 <= n < Base
FromInt(n) == RoundToDouble(Zeros(ExtraLimbs) \o <<n>>, -(LimbBits * ExtraLimbs), FALSE)

\* x / k for a float x and an int 0 < k < Base
Quotient(d, e) == RoundToDouble(d.q, e, d.r # 0)

FDiv(x, k) ==
    Quotient(DivLimbs(Zeros(ExtraLimbs) \o x.m, k), x.e - LimbBits * ExtraLimbs)

\* x * k for a float x and an int 0 < k < Base
FMul(x, k) == RoundToDouble(MulLimbs(x.m, k, 0), x.e, FALSE)

\* x < y for floats x, y >= 0
FLess(x, y) ==
    IF y = FZero THEN FALSE
    ELSE IF x = FZero THEN TRUE
    ELSE \/ x.e < y.e
         \/ /\ x.e = y.e
            /\ \E i \in 1..MantissaLimbs :
                  /\ x.m[i] < y.m[i]
                  /\ \A j \in (i + 1)..MantissaLimbs : x.m[j] = y.m[j]

(***************************************************************************)
(* round(risk_score, 2), in hundredths: the exact value of the double is   *)
(* rounded to two decimals, ties to even.  risk_score is at most 100, so   *)
(* the exponent is negative and the result fits one limb.                  *)
(***************************************************************************)
Hundredths(N, d, kept) ==
    IF RoundsUp(N, d, FALSE, kept % 2 = 1) THEN kept + 1 ELSE kept

ScaledBy100(N, d) == Hundredths(N, d, ShiftRight(N, d)[1])

Round2(x) == IF x = FZero THEN 0 ELSE ScaledBy100(MulLimbs(x.m, 100, 0), -x.e)

(***************************************************************************)
(* calculate_risk_score(symptoms, red_flags)                               *)
(***************************************************************************)
\* mutant: the weight of critical is mistyped
risk_weights_CriticalFour(level) == CASE level = "low" -> 1
                                      [] level = "medium" -> 2
                                      [] level = "high" -> 3
                                      [] level = "critical" -> 4
                                      [] OTHER -> 1

risk_weights(level) == CASE level = "low" -> 1
                         [] level = "medium" -> 2
                         [] level = "high" -> 3
                         [] level = "critical" -> 5
                         [] OTHER -> 1

\* mutant: the first matched rule wins, whatever its priority
MaxByPriority_First(rfs) == rfs[1]

\* mutant: among the rules of maximal priority the last one wins
MaxByPriority_Last(rfs) ==
    rfs[CHOOSE k \in 1..Len(rfs) :
            /\ \A j \in 1..Len(rfs) : rfs[j].priority <= rfs[k].priority
            /\ \A j \in (k + 1)..Len(rfs) : rfs[j].priority < rfs[k].priority]

\* first element of maximal priority, as Python's max(list, key=...)
RECURSIVE MaxByPriority(_)
MaxByPriority(rfs) ==
    IF Len(rfs) = 1 THEN rfs[1]
    ELSE LET rest == MaxByPriority(Tail(rfs))
         IN  IF rest.priority > Head(rfs).priority THEN rest ELSE Head(rfs)

\* the constants 100, 70 and 40 of the comparisons, as floats
ScoreCap == FromInt(100)

ErThreshold == FromInt(70)

ClinicThreshold == FromInt(40)

\* min(100, x)
capped(x) == IF FLess(x, ScoreCap) THEN x ELSE ScoreCap

\* weighted_score = weighted_sum / len(symptoms)
\* risk_score = min(100, (weighted_score / 50) * 100)
normalised_score(weighted_sum, count) ==
    capped(FMul(FDiv(FDiv(FromInt(weighted_sum), count), 50), 100))

\* normalised_score, computed once for the lists of up to MaxScored symptoms
score_table ==
    [count \in 1..MaxScored, weighted_sum \in 0..(MaxSeverity * MaxWeight * MaxScored) |->
       normalised_score(weighted_sum, count)]

\* mutant: the weighted sum itself is taken as the score
risk_score_of_WeightedSum(weighted_sum, count) == FromInt(weighted_sum)

risk_score_of(weighted_sum, count) ==
    IF count <= MaxScored /\ weighted_sum <= MaxSeverity * MaxWeight * MaxScored
    THEN score_table[count, weighted_sum]
    ELSE normalised_score(weighted_sum, count)

\* mutant: the weight is looked up once, for the first symptom of the list
weighted_sum_FirstWeight(syms) ==
    SumSeq([i \in 1..Len(syms) |-> syms[i].severity * risk_weights(syms[1].risk_level)])

\* sum(s.severity * risk_weights.get(s.risk_level.value, 1) for s in symptoms)
weighted_sum(syms) ==
    SumSeq([i \in 1..Len(syms) |-> syms[i].severity * risk_weights(syms[i].risk_level)])

\* symptom_ids = set(s.id for s in symptoms)
reported_ids(syms) == {syms[i].id : i \in 1..Len(syms)}

\* mutant: a rule matches only when more symptoms are reported than it names
matching_red_flags_Strict(symptom_ids, rfs) ==
    SelectSeq(rfs, LAMBDA rf : /\ Range(rf.symptom_combination) \subseteq symptom_ids
                               /\ Range(rf.symptom_combination) # symptom_ids)

\* the rules whose symptom_combination is a subset of symptom_ids, in the
\* order of the catalog
matching_red_flags(symptom_ids, rfs) ==
    SelectSeq(rfs, LAMBDA rf : Range(rf.symptom_combination) \subseteq symptom_ids)

\* mutant: the thresholds belong to the lower band
triage_result_for_StrictBands(risk_score, matched_red_flags) ==
    IF matched_red_flags # <<>> THEN MaxByPriority(matched_red_flags).trigger_action
    ELSE IF FLess(ErThreshold, risk_score) THEN "ER"
    ELSE IF FLess(ClinicThreshold, risk_score) THEN "Clinic"
    ELSE "Home"

\* mutant: a high score is looked at before the matched rules
triage_result_for_ScoreFirst(risk_score, matched_red_flags) ==
    IF ~FLess(risk_score, ErThreshold) THEN "ER"
    ELSE IF matched_red_flags # <<>> THEN MaxByPriority(matched_red_flags).trigger_action
    ELSE IF ~FLess(risk_score, ClinicThreshold) THEN "Clinic"
    ELSE "Home"

\* the rule of highest priority if a rule matched, else the band of the score
triage_result_for(risk_score, matched_red_flags) ==
    IF matched_red_flags # <<>> THEN MaxByPriority(matched_red_flags).trigger_action
    ELSE IF ~FLess(risk_score, ErThreshold) THEN "ER"
    ELSE IF ~FLess(risk_score, ClinicThreshold) THEN "Clinic"
    ELSE "Home"

\* mutant: the rules are evaluated for the empty list too
no_symptoms_result_Matched(rfs) ==
    LET matched_red_flags == matching_red_flags({}, rfs)
    IN  [risk_score |-> FZero,
         triage_result |-> triage_result_for(FZero, matched_red_flags),
         matched_red_flags |-> matched_red_flags]

\* if not symptoms: return 0.0, TriggerAction.HOME, []
no_symptoms_result(rfs) ==
    [risk_score |-> FZero, triage_result |-> "Home", matched_red_flags |-> <<>>]

\* return risk_score, triage_result, matched_red_flags
scored(risk_score, matched_red_flags) ==
    [risk_score |-> risk_score,
     triage_result |-> triage_result_for(risk_score, matched_red_flags),
     matched_red_flags |-> matched_red_flags]

calculate_risk_score(syms, rfs) ==
    IF syms = <<>> THEN no_symptoms_result(rfs)
    ELSE scored(risk_score_of(weighted_sum(syms), Len(syms)),
                matching_red_flags(reported_ids(syms), rfs))

(***************************************************************************)
(* Responses.  Every response carries the same fields; those a handler     *)
(* does not return hold the absent value.                                  *)
(***************************************************************************)
Resp(op, u, sid, x, code, detail) ==
    [op |-> op, code |-> code, detail |-> detail,
     session_id |-> NoSession, status |-> "None", symptoms_reported |-> <<>>,
     risk_score |-> -1, triage_result |-> NoResult,
     symptom_added |-> 0,
     symptoms_analyzed |-> <<>>, red_flags_triggered |-> <<>>,
     completed_at |-> NoTime]

HTTPException(op, u, sid, x, code, detail) ==
    Resp(op, u, sid, x, code, detail)

(***************************************************************************)
(* Rows and queries.                                                       *)
(***************************************************************************)
\* mutant: every new row is given the identifier 1
TriageSession_FirstId(id, patient_id) ==
    [id |-> 1, patient_id |-> patient_id, symptoms_reported |-> <<>>,
     risk_score |-> NoScore, triage_result |-> NoResult,
     status |-> "in_progress", completed_at |-> NoTime]

\* TriageSession(patient_id=..., status="in_progress", symptoms_reported=[])
TriageSession(id, patient_id) ==
    [id |-> id, patient_id |-> patient_id, symptoms_reported |-> <<>>,
     risk_score |-> NoScore, triage_result |-> NoResult,
     status |-> "in_progress", completed_at |-> NoTime]

\* mutant: the status filter names a status no session ever has
ActiveSessions_WrongStatus(ts, p) ==
    {i \in 1..Len(ts) : ts[i].patient_id = p /\ ts[i].status = "active"}

\* db.query(TriageSession).filter(patient_id == p, status == "in_progress")
ActiveSessions(ts, p) ==
    {i \in 1..Len(ts) : ts[i].patient_id = p /\ ts[i].status = "in_progress"}

\* mutant: the result of the query is dropped, as if no row had matched
FirstRows_NoRow(S) == {NoSession}

\* the rows .first() can return: one of the matching rows, or none
FirstRows(S) == IF S = {} THEN {NoSession} ELSE S

\* mutant: the session is looked up by its identifier alone
OwnedSession_AnyPatient(ts, sid, p) ==
    IF sid \in 1..Len(ts) THEN sid ELSE NoSession

\* db.query(TriageSession).filter(id == sid, patient_id == p).first()
OwnedSession(ts, sid, p) ==
    IF sid \in 1..Len(ts) /\ ts[sid].patient_id = p THEN sid ELSE NoSession

\* mutant: the symptom is not looked up
SymptomExists_Unchecked(cat, x) == TRUE

\* db.query(Symptom).filter(Symptom.id == x).first()
SymptomExists(cat, x) == x \in 1..Len(cat)

\* mutant: the filter is left out, every catalog symptom is scored
SymptomsIn_All(cat, ids) == cat

\* db.query(Symptom).filter(Symptom.id.in_(ids)).all(): each matching row once
SymptomsIn(cat, ids) == SelectSeq(cat, LAMBDA s : s.id \in Range(ids))

(***************************************************************************)
(* start_triage_session: POST /triage/start.  active is the row returned   *)
(* by the query for the patient's in_progress session.                     *)
(***************************************************************************)
\* mutant: the patient's finished sessions are deleted when a new one is created
start_triage_session_DropsCompleted(ts, u, active) ==
    IF role(u) # "patient"
    THEN [sessions |-> ts,
          resp |-> HTTPException("start", u, NoSession, 0, 403,
                                 "Only patients can start triage sessions")]
    ELSE IF PatientOf(u) = NoPatient
    THEN [sessions |-> ts,
          resp |-> HTTPException("start", u, NoSession, 0, 404,
                                 "Patient profile not found")]
    ELSE IF active # NoSession
    THEN [sessions |-> ts,
          resp |-> [Resp("start", u, NoSession, 0, 200, "Active triage session found")
                    EXCEPT !.session_id = ts[active].id,
                           !.status = ts[active].status,
                           !.symptoms_reported = ts[active].symptoms_reported]]
    ELSE LET kept == SelectSeq(ts, LAMBDA row : row.patient_id # PatientOf(u))
             new_session == TriageSession(Len(kept) + 1, PatientOf(u))
         IN [sessions |-> Append(kept, new_session),
             resp |-> [Resp("start", u, NoSession, 0, 200, "Triage session started")
                       EXCEPT !.session_id = new_session.id,
                              !.status = new_session.status,
                              !.symptoms_reported = <<>>]]

start_triage_session(ts, u, active) ==
    IF role(u) # "patient"
    THEN [sessions |-> ts,
          resp |-> HTTPException("start", u, NoSession, 0, 403,
                                 "Only patients can start triage sessions")]
    ELSE IF PatientOf(u) = NoPatient
    THEN [sessions |-> ts,
          resp |-> HTTPException("start", u, NoSession, 0, 404,
                                 "Patient profile not found")]
    ELSE IF active # NoSession
    THEN [sessions |-> ts,
          resp |-> [Resp("start", u, NoSession, 0, 200, "Active triage session found")
                    EXCEPT !.session_id = ts[active].id,
                           !.status = ts[active].status,
                           !.symptoms_reported = ts[active].symptoms_reported]]
    ELSE LET new_session == TriageSession(Len(ts) + 1, PatientOf(u))
         IN [sessions |-> Append(ts, new_session),
             resp |-> [Resp("start", u, NoSession, 0, 200, "Triage session started")
                       EXCEPT !.session_id = new_session.id,
                              !.status = new_session.status,
                              !.symptoms_reported = <<>>]]

(***************************************************************************)
(* add_symptom_to_session: POST /triage/add-symptom.                       *)
(*                                                                         *)
(* symptoms_reported is a plain Column(JSON) (models.py:128), so the ORM   *)
(* sees a change only when the attribute is assigned a value that differs  *)
(* from the loaded one.  "session.symptoms_reported or []" is the loaded   *)
(* list itself when that list is non-empty: append() changes it in place,  *)
(* the assignment stores the same object, the flush compares the value     *)
(* with itself and emits no UPDATE, and refresh() reloads the stored list. *)
(* When the loaded list is empty, "or []" yields a fresh list, which       *)
(* differs from the loaded value after the append and is written.          *)
(***************************************************************************)
committed_symptoms_reported(loaded, x) ==
    IF loaded = <<>> THEN <<x>> ELSE loaded

\* mutant: a copy of the list is appended to and stored, without the duplicate check
symptoms_after_add_NoCheck(current_symptoms, x) == Append(current_symptoms, x)

\* "Add symptom to session": the duplicate check, the append and the commit
symptoms_after_add(current_symptoms, x) ==
    IF x \notin Range(current_symptoms)
    THEN committed_symptoms_reported(current_symptoms, x)
    ELSE current_symptoms

\* mutant: the status of the session is not checked
accepts_symptoms_Always(session) == TRUE

\* the guard session.status != "in_progress" of add_symptom_to_session
accepts_symptoms(session) == session.status = "in_progress"

\* mutant: the symptom is looked up before the status of the session is checked
add_symptom_to_session_SymptomFirst(ts, cat, u, sid, x) ==
    IF role(u) # "patient"
    THEN [sessions |-> ts,
          resp |-> HTTPException("add", u, sid, x, 403, "Only patients can add symptoms")]
    ELSE IF PatientOf(u) = NoPatient
    THEN [sessions |-> ts,
          resp |-> HTTPException("add", u, sid, x, 404, "Patient profile not found")]
    ELSE IF OwnedSession(ts, sid, PatientOf(u)) = NoSession
    THEN [sessions |-> ts,
          resp |-> HTTPException("add", u, sid, x, 404, "Triage session not found")]
    ELSE IF ~SymptomExists(cat, x)
    THEN [sessions |-> ts,
          resp |-> HTTPException("add", u, sid, x, 404, "Symptom not found")]
    ELSE IF ~accepts_symptoms(ts[sid])
    THEN [sessions |-> ts,
          resp |-> HTTPException("add", u, sid, x, 400,
                                 "Cannot add symptoms to a completed session")]
    ELSE LET after == [ts EXCEPT ![sid].symptoms_reported =
                                symptoms_after_add(ts[sid].symptoms_reported, x)]
         IN [sessions |-> after,
             resp |-> [Resp("add", u, sid, x, 200, "Symptom added to session")
                       EXCEPT !.session_id = after[sid].id,
                              !.symptoms_reported = after[sid].symptoms_reported,
                              !.symptom_added = x]]

add_symptom_to_session(ts, cat, u, sid, x) ==
    IF role(u) # "patient"
    THEN [sessions |-> ts,
          resp |-> HTTPException("add", u, sid, x, 403, "Only patients can add symptoms")]
    ELSE IF PatientOf(u) = NoPatient
    THEN [sessions |-> ts,
          resp |-> HTTPException("add", u, sid, x, 404, "Patient profile not found")]
    ELSE IF OwnedSession(ts, sid, PatientOf(u)) = NoSession
    THEN [sessions |-> ts,
          resp |-> HTTPException("add", u, sid, x, 404, "Triage session not found")]
    ELSE IF ~accepts_symptoms(ts[sid])
    THEN [sessions |-> ts,
          resp |-> HTTPException("add", u, sid, x, 400,
                                 "Cannot add symptoms to a completed session")]
    ELSE IF ~SymptomExists(cat, x)
    THEN [sessions |-> ts,
          resp |-> HTTPException("add", u, sid, x, 404, "Symptom not found")]
    ELSE LET after == [ts EXCEPT ![sid].symptoms_reported =
                                symptoms_after_add(ts[sid].symptoms_reported, x)]
         IN [sessions |-> after,
             resp |-> [Resp("add", u, sid, x, 200, "Symptom added to session")
                       EXCEPT !.session_id = after[sid].id,
                              !.symptoms_reported = after[sid].symptoms_reported,
                              !.symptom_added = x]]

(***************************************************************************)
(* get_triage_result: GET /triage/result/{session_id}.  t is the value    *)
(* datetime.utcnow() returns.                                              *)
(***************************************************************************)
\* round(risk_score, 2) in hundredths, computed once for the scores of the
\* lists of up to MaxScored symptoms
rounded_table ==
    [count \in 1..MaxScored, total \in 0..(MaxSeverity * MaxWeight * MaxScored) |->
       Round2(score_table[count, total])]

\* round(risk_score, 2) for the score of the list syms
rounded_risk_score(syms, risk_score) ==
    IF syms # <<>> /\ Len(syms) <= MaxScored
         /\ risk_score = score_table[Len(syms), weighted_sum(syms)]
    THEN rounded_table[Len(syms), weighted_sum(syms)]
    ELSE Round2(risk_score)

\* mutant: the completion time is not stored
update_session_NoTimestamp(session, r, t) ==
    [session EXCEPT !.risk_score = r.risk_score,
                    !.triage_result = r.triage_result,
                    !.status = "completed"]

\* mutant: the status is left as it was
update_session_NoStatus(session, r, t) ==
    [session EXCEPT !.risk_score = r.risk_score,
                    !.triage_result = r.triage_result,
                    !.completed_at = t]

\* mutant: the status is toggled instead of set
update_session_Toggle(session, r, t) ==
    [session EXCEPT !.risk_score = r.risk_score,
                    !.triage_result = r.triage_result,
                    !.status = IF @ = "completed" THEN "in_progress" ELSE "completed",
                    !.completed_at = t]

\* the "Update session" block: the four assignments committed together
update_session(session, r, t) ==
    [session EXCEPT !.risk_score = r.risk_score,
                    !.triage_result = r.triage_result,
                    !.status = "completed",
                    !.completed_at = t]

get_triage_result(ts, cat, rfs, t, u, sid) ==
    IF role(u) # "patient"
    THEN [sessions |-> ts, wrote |-> FALSE,
          resp |-> HTTPException("result", u, sid, 0, 403,
                                 "Only patients can view triage results")]
    ELSE IF PatientOf(u) = NoPatient
    THEN [sessions |-> ts, wrote |-> FALSE,
          resp |-> HTTPException("result", u, sid, 0, 404, "Patient profile not found")]
    ELSE IF OwnedSession(ts, sid, PatientOf(u)) = NoSession
    THEN [sessions |-> ts, wrote |-> FALSE,
          resp |-> HTTPException("result", u, sid, 0, 404, "Triage session not found")]
    ELSE LET symptom_ids == ts[sid].symptoms_reported
             syms == IF symptom_ids # <<>> THEN SymptomsIn(cat, symptom_ids) ELSE <<>>
             r == calculate_risk_score(syms, rfs)
             after == [ts EXCEPT ![sid] = update_session(ts[sid], r, t)]
         IN [sessions |-> after, wrote |-> TRUE,
             resp |-> [Resp("result", u, sid, 0, 200, "Triage assessment completed")
                       EXCEPT !.session_id = after[sid].id,
                              !.risk_score = rounded_risk_score(syms, r.risk_score),
                              !.triage_result = r.triage_result,
                              !.symptoms_analyzed = syms,
                              !.red_flags_triggered =
                                  [i \in 1..Len(r.matched_red_flags) |->
                                     [name |-> r.matched_red_flags[i].name,
                                      action |-> r.matched_red_flags[i].trigger_action]],
                              !.completed_at = after[sid].completed_at]]

(***************************************************************************)
(* Catalogs and request inputs.                                            *)
(***************************************************************************)
InitialSymptoms ==
    << [id |-> 1, name |-> "chest pain", severity |-> 8, risk_level |-> "critical"],
       [id |-> 2, name |-> "fever", severity |-> 10, risk_level |-> "medium"] >>

InitialRedFlags ==
    << [id |-> 1, name |-> "mild chest pain", symptom_combination |-> <<1>>,
        trigger_action |-> "Home", priority |-> 1],
       [id |-> 2, name |-> "cardiac", symptom_combination |-> <<1>>,
        trigger_action |-> "ER", priority |-> 3] >>

SessionIds == 1..MaxSessions

(***************************************************************************)
(* datetime.utcnow(): the clock does not run backwards, so a request reads *)
(* a time that is not before any timestamp already stored.                 *)
(***************************************************************************)
Max(S) == CHOOSE m \in S : \A n \in S : n <= m

Clock(ts) == LET latest == Max({1} \cup {ts[i].completed_at : i \in 1..Len(ts)})
             IN latest..MaxTime
\* identifiers a request can name: those of the catalog, and one more
SymptomIds == 1..(Len(InitialSymptoms) + 1)

(***************************************************************************)
(* Arguments of calculate_risk_score: lists of up to MaxScored symptoms,   *)
(* a symptom any number of times and in any order, and catalogs of up to   *)
(* MaxFlags distinct rules in any order.                                   *)
(***************************************************************************)
ScoredSymptoms ==
    { InitialSymptoms[1], InitialSymptoms[2],
      [id |-> 3, name |-> "cough", severity |-> 2, risk_level |-> "low"],
      [id |-> 4, name |-> "headache", severity |-> 3, risk_level |-> "medium"],
      [id |-> 5, name |-> "breathlessness", severity |-> 10, risk_level |-> "high"],
      [id |-> 6, name |-> "stroke signs", severity |-> 10, risk_level |-> "critical"] }

ScoredRedFlags ==
    { InitialRedFlags[1],
      [id |-> 2, name |-> "cough with headache", symptom_combination |-> <<3, 4>>,
       trigger_action |-> "ER", priority |-> 3],
      [id |-> 3, name |-> "always", symptom_combination |-> <<>>,
       trigger_action |-> "Clinic", priority |-> 3],
      [id |-> 4, name |-> "cardiac", symptom_combination |-> <<1, 5>>,
       trigger_action |-> "ER", priority |-> 2] }

SeqsUpTo(S, n) == UNION {[1..k -> S] : k \in 0..n}

SymptomLists == SeqsUpTo(ScoredSymptoms, MaxScored)

RedFlagCatalogs ==
    {c \in SeqsUpTo(ScoredRedFlags, MaxFlags) :
        \A i, j \in 1..Len(c) : c[i].id = c[j].id => i = j}

\* no call made / the call has not returned
NoReturn == [risk_score |-> NoScore, triage_result |-> NoResult, matched_red_flags |-> <<>>]

NoCall == [symptoms |-> <<>>, red_flags |-> <<>>, returned |-> NoReturn]

(***************************************************************************)
(* Requests in flight.  Each request has its own database session          *)
(* (get_db), so what it has loaded is its own copy of the row.             *)
(***************************************************************************)
Requests == {1, 2}

NoRow ==
    [id |-> NoSession, patient_id |-> NoPatient, symptoms_reported |-> <<>>,
     risk_score |-> NoScore, triage_result |-> NoResult,
     status |-> "None", completed_at |-> NoTime]

\* no request is being handled
NoRequest == [op |-> "none", pc |-> "idle"]

\* a request as it arrives: nothing loaded, no response
Request(op, u, sid, x) ==
    [op |-> op, pc |-> "query", u |-> u, sid |-> sid, x |-> x,
     loaded |-> NoRow, resp |-> Resp("none", 0, NoSession, 0, 0, "")]

(***************************************************************************)
(* The state machine: one action per request, each run to completion.      *)
(***************************************************************************)
Init ==
    /\ triage_sessions = <<>>
    /\ symptoms = InitialSymptoms
    /\ red_flags = InitialRedFlags
    /\ response = Resp("none", 0, NoSession, 0, 0, "")
    /\ scoring = NoCall
    /\ requests = [i \in Requests |-> NoRequest]
    /\ arrivals = 0

StartSession(u) ==
    \E active \in FirstRows(ActiveSessions(triage_sessions, PatientOf(u))) :
        LET r == start_triage_session(triage_sessions, u, active)
        IN /\ Len(r.sessions) <= MaxSessions
           /\ triage_sessions' = r.sessions
           /\ response' = r.resp
           /\ UNCHANGED <<symptoms, red_flags, scoring, requests, arrivals>>

AddSymptom(u, sid, x) ==
    LET r == add_symptom_to_session(triage_sessions, symptoms, u, sid, x)
    IN /\ triage_sessions' = r.sessions
       /\ response' = r.resp
       /\ UNCHANGED <<symptoms, red_flags, scoring, requests, arrivals>>

FinalizeSession(u, sid, t) ==
    LET r == get_triage_result(triage_sessions, symptoms, red_flags, t, u, sid)
    IN /\ triage_sessions' = r.sessions
       /\ response' = r.resp
       /\ UNCHANGED <<symptoms, red_flags, scoring, requests, arrivals>>

Next ==
    \/ \E u \in Users : StartSession(u)
    \/ \E u \in Users, sid \in SessionIds, x \in SymptomIds : AddSymptom(u, sid, x)
    \/ \E u \in Users, sid \in SessionIds, t \in Clock(triage_sessions) :
          FinalizeSession(u, sid, t)

Spec == Init /\ [][Next]_vars

(***************************************************************************)
(* SpecScore: one call of calculate_risk_score on each pair of arguments.  *)
(***************************************************************************)
InitScore ==
    /\ triage_sessions = <<>>
    /\ symptoms = InitialSymptoms
    /\ red_flags = InitialRedFlags
    /\ response = Resp("none", 0, NoSession, 0, 0, "")
    /\ scoring \in [symptoms : SymptomLists, red_flags : RedFlagCatalogs,
                     returned : {NoReturn}]
    /\ requests = [i \in Requests |-> NoRequest]
    /\ arrivals = 0

Score ==
    /\ scoring.returned = NoReturn
    /\ scoring' = [scoring EXCEPT
                     !.returned = calculate_risk_score(scoring.symptoms, scoring.red_flags)]
    /\ UNCHANGED <<triage_sessions, symptoms, red_flags, response, requests, arrivals>>

NextScore == Score

SpecScore == InitScore /\ [][NextScore]_vars

(***************************************************************************)
(* SpecInterleaved: two requests at a time, each handler one database read *)
(* or commit per step.  The reads of the patient profile and of the two    *)
(* catalogs are taken together with the read of the session: no handler    *)
(* writes those tables, so the reads give the same rows wherever they fall *)
(* between the steps of the other request.                                 *)
(***************************************************************************)
\* the request has returned: its response, and nothing kept of the row
Returns(req, resp) == [req EXCEPT !.pc = "done", !.loaded = NoRow, !.resp = resp]

\* a request arrives while at most one other is being handled
Receive(i, op, u, sid, x) ==
    /\ requests[i].pc \in {"idle", "done"}
    /\ arrivals < MaxRequests
    /\ arrivals' = arrivals + 1
    /\ requests' = [requests EXCEPT ![i] =
                       Request(op, u, IF op = "start" THEN NoSession ELSE sid,
                               IF op = "add" THEN x ELSE 0)]
    /\ UNCHANGED <<triage_sessions, symptoms, red_flags, response, scoring>>

\* start_triage_session up to the query for an active session and the
\* response that returns the session found
StartQuery(i) ==
    LET req == requests[i]
    IN /\ req.op = "start" /\ req.pc = "query"
       /\ \E active \in FirstRows(ActiveSessions(triage_sessions, PatientOf(req.u))) :
             requests' = [requests EXCEPT ![i] =
                IF role(req.u) # "patient" \/ PatientOf(req.u) = NoPatient \/ active # NoSession
                THEN Returns(req, start_triage_session(triage_sessions, req.u, active).resp)
                ELSE [req EXCEPT !.pc = "commit"]]
       /\ UNCHANGED <<triage_sessions, symptoms, red_flags, response, scoring, arrivals>>

\* db.add(new_session); db.commit(): the row is inserted under the next key
StartCommit(i) ==
    LET req == requests[i]
        new_session == TriageSession(Len(triage_sessions) + 1, PatientOf(req.u))
    IN /\ req.op = "start" /\ req.pc = "commit"
       /\ Len(triage_sessions) < MaxSessions
       /\ triage_sessions' = Append(triage_sessions, new_session)
       /\ requests' = [requests EXCEPT ![i] =
                          [req EXCEPT !.pc = "refresh", !.sid = new_session.id]]
       /\ UNCHANGED <<symptoms, red_flags, response, scoring, arrivals>>

\* db.refresh(new_session) and the response
StartRefresh(i) ==
    LET req == requests[i]
        new_session == triage_sessions[req.sid]
    IN /\ req.op = "start" /\ req.pc = "refresh"
       /\ requests' = [requests EXCEPT ![i] =
             Returns(req, [Resp("start", req.u, NoSession, 0, 200, "Triage session started")
                           EXCEPT !.session_id = new_session.id,
                                  !.status = new_session.status,
                                  !.symptoms_reported = <<>>])]
       /\ UNCHANGED <<triage_sessions, symptoms, red_flags, response, scoring, arrivals>>

\* add_symptom_to_session up to the append: the session is loaded, its status
\* and the symptom are checked
AddQuery(i) ==
    LET req == requests[i]
        checked == add_symptom_to_session(triage_sessions, symptoms, req.u, req.sid, req.x)
    IN /\ req.op = "add" /\ req.pc = "query"
       /\ requests' = [requests EXCEPT ![i] =
             IF checked.resp.code # 200
             THEN Returns(req, checked.resp)
             ELSE [req EXCEPT !.pc = "commit", !.loaded = triage_sessions[req.sid]]]
       /\ UNCHANGED <<triage_sessions, symptoms, red_flags, response, scoring, arrivals>>

\* the append to the loaded list, the assignment and db.commit(): the UPDATE
\* names symptoms_reported alone, and only when the value assigned differs
\* from the value loaded
AddCommit(i) ==
    LET req == requests[i]
        assigned == symptoms_after_add(req.loaded.symptoms_reported, req.x)
    IN /\ req.op = "add" /\ req.pc = "commit"
       /\ triage_sessions' =
             IF assigned # req.loaded.symptoms_reported
             THEN [triage_sessions EXCEPT ![req.sid].symptoms_reported = assigned]
             ELSE triage_sessions
       /\ requests' = [requests EXCEPT ![i] = [req EXCEPT !.pc = "refresh"]]
       /\ UNCHANGED <<symptoms, red_flags, response, scoring, arrivals>>

\* db.refresh(session) and the response, which shows the stored list
AddRefresh(i) ==
    LET req == requests[i]
        session == triage_sessions[req.sid]
    IN /\ req.op = "add" /\ req.pc = "refresh"
       /\ requests' = [requests EXCEPT ![i] =
             Returns(req, [Resp("add", req.u, req.sid, req.x, 200, "Symptom added to session")
                           EXCEPT !.session_id = session.id,
                                  !.symptoms_reported = session.symptoms_reported,
                                  !.symptom_added = req.x])]
       /\ UNCHANGED <<triage_sessions, symptoms, red_flags, response, scoring, arrivals>>

\* get_triage_result up to the scoring: the session is loaded
FinalizeQuery(i) ==
    LET req == requests[i]
    IN /\ req.op = "result" /\ req.pc = "query"
       /\ requests' = [requests EXCEPT ![i] =
             IF role(req.u) # "patient" \/ PatientOf(req.u) = NoPatient
                  \/ OwnedSession(triage_sessions, req.sid, PatientOf(req.u)) = NoSession
             THEN Returns(req, get_triage_result(triage_sessions, symptoms, red_flags,
                                                 NoTime, req.u, req.sid).resp)
             ELSE [req EXCEPT !.pc = "commit", !.loaded = triage_sessions[req.sid]]]
       /\ UNCHANGED <<triage_sessions, symptoms, red_flags, response, scoring, arrivals>>

\* the columns an UPDATE sets: those whose assigned value differs from the
\* value loaded; the other columns of the stored row stay as they are
flushed(stored, loaded, assigned) ==
    [stored EXCEPT
       !.symptoms_reported = IF assigned.symptoms_reported # loaded.symptoms_reported
                             THEN assigned.symptoms_reported ELSE @,
       !.risk_score = IF assigned.risk_score # loaded.risk_score
                      THEN assigned.risk_score ELSE @,
       !.triage_result = IF assigned.triage_result # loaded.triage_result
                         THEN assigned.triage_result ELSE @,
       !.status = IF assigned.status # loaded.status THEN assigned.status ELSE @,
       !.completed_at = IF assigned.completed_at # loaded.completed_at
                        THEN assigned.completed_at ELSE @]

\* the scoring of the loaded list, the four assignments and db.commit()
FinalizeCommit(i, t) ==
    LET req == requests[i]
        alone == <<req.loaded>>
        scored_alone == get_triage_result(alone, symptoms, red_flags, t, req.u, 1)
    IN /\ req.op = "result" /\ req.pc = "commit"
       /\ triage_sessions' =
             [triage_sessions EXCEPT ![req.sid] =
                 flushed(@, req.loaded, scored_alone.sessions[1])]
       /\ requests' = [requests EXCEPT ![i] =
                          [req EXCEPT !.pc = "refresh", !.resp = scored_alone.resp]]
       /\ UNCHANGED <<symptoms, red_flags, response, scoring, arrivals>>

\* db.refresh(session) and the response: the score, the action and the rules
\* are those computed, the identifier and completed_at those of the stored row
FinalizeRefresh(i) ==
    LET req == requests[i]
        session == triage_sessions[req.sid]
    IN /\ req.op = "result" /\ req.pc = "refresh"
       /\ requests' = [requests EXCEPT ![i] =
             Returns(req, [req.resp EXCEPT !.session_id = session.id,
                                           !.completed_at = session.completed_at])]
       /\ UNCHANGED <<triage_sessions, symptoms, red_flags, response, scoring, arrivals>>

NextInterleaved ==
    \/ \E i \in Requests, op \in {"start", "add", "result"},
           u \in Users, sid \in SessionIds, x \in SymptomIds : Receive(i, op, u, sid, x)
    \/ \E i \in Requests : StartQuery(i)
    \/ \E i \in Requests : StartCommit(i)
    \/ \E i \in Requests : StartRefresh(i)
    \/ \E i \in Requests : AddQuery(i)
    \/ \E i \in Requests : AddCommit(i)
    \/ \E i \in Requests : AddRefresh(i)
    \/ \E i \in Requests : FinalizeQuery(i)
    \/ \E i \in Requests, t \in Clock(triage_sessions) : FinalizeCommit(i, t)
    \/ \E i \in Requests : FinalizeRefresh(i)

SpecInterleaved == Init /\ [][NextInterleaved]_vars

(***************************************************************************)
(* Properties.                                                             *)
(***************************************************************************)
InProgressOf(p) ==
    {i \in 1..Len(triage_sessions) :
        triage_sessions[i].patient_id = p /\ triage_sessions[i].status = "in_progress"}

CompletedOf(p) ==
    {i \in 1..Len(triage_sessions) :
        triage_sessions[i].patient_id = p /\ triage_sessions[i].status = "completed"}

ProfiledUsers == {u \in Users : role(u) = "patient" /\ PatientOf(u) # NoPatient}

\* C1: after any sequence of StartSession, AddSymptom and FinalizeSession
\* requests run one at a time, every patient has at most one in_progress
\* session.
C1_OneActiveSessionPerPatient ==
    \A p \in Patients : Cardinality(InProgressOf(p)) <= 1

\* a patient with a completed and an in_progress session has called StartSession
\* again and was handed the in_progress one
C1_Witness ==
    /\ \E p \in Patients : CompletedOf(p) # {} /\ InProgressOf(p) # {}
    /\ response.op = "start"
    /\ response.detail = "Active triage session found"

\* C2: StartSession for a patient with an in_progress session returns that
\* session's identifier with success and leaves the table as it is (no new
\* record, no field of any session changed); two successive StartSession calls
\* return the same identifier.
C2_StartIsIdempotent ==
    \A u \in ProfiledUsers :
      \A active \in FirstRows(ActiveSessions(triage_sessions, PatientOf(u))) :
        LET r1 == start_triage_session(triage_sessions, u, active)
        IN /\ \A a \in InProgressOf(PatientOf(u)) :
                 /\ r1.resp.code = 200
                 /\ r1.resp.session_id = a
                 /\ r1.resp.symptoms_reported = triage_sessions[a].symptoms_reported
                 /\ r1.sessions = triage_sessions
           /\ \A again \in FirstRows(ActiveSessions(r1.sessions, PatientOf(u))) :
                 LET r2 == start_triage_session(r1.sessions, u, again)
                 IN /\ r2.resp.code = 200
                    /\ r2.resp.session_id = r1.resp.session_id
                    /\ r2.sessions = r1.sessions

\* StartSession has returned an existing session that already holds a symptom,
\* while the other patient has a session too
C2_Witness ==
    /\ response.op = "start"
    /\ response.detail = "Active triage session found"
    /\ response.symptoms_reported # <<>>
    /\ \A p \in Patients : InProgressOf(p) # {}

\* the fields of a session that are frozen once it is completed
Frozen(session) ==
    <<session.symptoms_reported, session.risk_score, session.triage_result,
      session.completed_at>>

\* C3: once a session is completed, its symptoms_reported, risk_score,
\* triage_result and completed timestamp never change again.
C3_CompletedIsFrozen ==
    [][\A s \in 1..Len(triage_sessions) :
          triage_sessions[s].status = "completed"
              => /\ s <= Len(triage_sessions')
                 /\ Frozen(triage_sessions'[s]) = Frozen(triage_sessions[s])]_vars

\* C4: risk_score and triage_result are written exactly once, in the step that
\* takes the session from in_progress to completed.  Every FinalizeSession that
\* returns a result has assigned both fields, so each step that produces such a
\* response must start from an in_progress session.
C4_ResultWrittenOnce ==
    [][(response' # response /\ response'.op = "result" /\ response'.code = 200)
          => triage_sessions[response'.session_id].status = "in_progress"]_vars

\* C5: AddSymptom by its owner on a completed session fails with HTTP 400 and
\* leaves every session as it is.
C5_AddToCompletedFails ==
    \A u \in ProfiledUsers, x \in SymptomIds :
      \A sid \in CompletedOf(PatientOf(u)) :
        LET r == add_symptom_to_session(triage_sessions, symptoms, u, sid, x)
        IN /\ r.resp.code = 400
           /\ r.resp.detail = "Cannot add symptoms to a completed session"
           /\ r.sessions = triage_sessions

C5_Witness ==
    /\ response.op = "add"
    /\ response.code = 400
    /\ \E s \in 1..Len(triage_sessions) : triage_sessions[s].status = "completed"

\* C6: a session is created in_progress, its status only ever changes from
\* in_progress to completed, and no session is removed.
C6_OnlyTransition ==
    [][/\ Len(triage_sessions') >= Len(triage_sessions)
       /\ \A s \in 1..Len(triage_sessions') :
            IF s <= Len(triage_sessions)
            THEN \/ triage_sessions'[s].status = triage_sessions[s].status
                 \/ /\ triage_sessions[s].status = "in_progress"
                    /\ triage_sessions'[s].status = "completed"
            ELSE triage_sessions'[s].status = "in_progress"]_vars

\* a patient whose session was completed, and completed again, has started a new one
C6_Witness ==
    /\ response.op = "start"
    /\ response.detail = "Triage session started"
    /\ \E p \in Patients : CompletedOf(p) # {} /\ InProgressOf(p) # {}

\* C7: a session is completed exactly when risk_score, triage_result and the
\* completed timestamp are all present; an in_progress session has none of them.
C7_CompletedIffResult ==
    \A s \in 1..Len(triage_sessions) :
      LET session == triage_sessions[s]
      IN /\ session.status \in {"in_progress", "completed"}
         /\ session.status = "completed"
              => /\ session.risk_score # NoScore
                 /\ session.triage_result # NoResult
                 /\ session.completed_at # NoTime
         /\ session.status = "in_progress"
              => /\ session.risk_score = NoScore
                 /\ session.triage_result = NoResult
                 /\ session.completed_at = NoTime

C7_Witness ==
    /\ \E s \in 1..Len(triage_sessions) :
          /\ triage_sessions[s].status = "completed"
          /\ triage_sessions[s].symptoms_reported # <<>>
    /\ \E s \in 1..Len(triage_sessions) : triage_sessions[s].status = "in_progress"
    /\ response.op = "result"
    /\ response.code = 200

\* C8: AddSymptom and FinalizeSession by a patient naming a session of another
\* patient, or no session, fail with 404 and leave every session as it is.
C8_OtherPatientsSessionNotFound ==
    \A u \in ProfiledUsers, sid \in SessionIds :
      (sid \notin 1..Len(triage_sessions) \/ triage_sessions[sid].patient_id # PatientOf(u))
        => /\ \A x \in SymptomIds :
                LET r == add_symptom_to_session(triage_sessions, symptoms, u, sid, x)
                IN /\ r.resp.code = 404
                   /\ r.resp.detail = "Triage session not found"
                   /\ r.sessions = triage_sessions
           /\ \A t \in Clock(triage_sessions) :
                LET r == get_triage_result(triage_sessions, symptoms, red_flags, t, u, sid)
                IN /\ r.resp.code = 404
                   /\ r.resp.detail = "Triage session not found"
                   /\ r.resp.triage_result = NoResult
                   /\ r.sessions = triage_sessions

\* every identifier a request can name is a session, so the session that was not
\* found is another patient's
C8_Witness ==
    /\ Len(triage_sessions) = Cardinality(SessionIds)
    /\ response.op \in {"add", "result"}
    /\ response.detail = "Triage session not found"

CatalogIds == {symptoms[i].id : i \in 1..Len(symptoms)}

\* C9: AddSymptom with an identifier that is not in the catalog stores nothing
\* and, on the caller's in_progress session, fails with 404; every identifier
\* in any session's symptoms_reported is a catalog identifier.
C9_OnlyCatalogSymptoms ==
    /\ \A s \in 1..Len(triage_sessions) :
          Range(triage_sessions[s].symptoms_reported) \subseteq CatalogIds
    /\ \A u \in Users, sid \in SessionIds, x \in SymptomIds \ CatalogIds :
          LET r == add_symptom_to_session(triage_sessions, symptoms, u, sid, x)
          IN /\ r.sessions = triage_sessions
             /\ r.resp.code # 200
             /\ sid \in InProgressOf(PatientOf(u))
                  => r.resp.code = 404 /\ r.resp.detail = "Symptom not found"

C9_Witness ==
    /\ response.op = "add"
    /\ response.detail = "Symptom not found"

NoDuplicates(seq) == \A i, j \in 1..Len(seq) : seq[i] = seq[j] => i = j

\* C10: AddSymptom of an identifier already in symptoms_reported succeeds and
\* changes nothing, no symptoms_reported holds an identifier twice, and
\* AddSymptom twice with the same arguments leaves the state of AddSymptom once.
C10_AddSymptomSetSemantics ==
    /\ \A s \in 1..Len(triage_sessions) :
          NoDuplicates(triage_sessions[s].symptoms_reported)
    /\ \A u \in Users, sid \in SessionIds, x \in SymptomIds :
          LET r1 == add_symptom_to_session(triage_sessions, symptoms, u, sid, x)
              r2 == add_symptom_to_session(r1.sessions, symptoms, u, sid, x)
          IN /\ r2.sessions = r1.sessions
             /\ r2.resp = r1.resp
             /\ (sid \in InProgressOf(PatientOf(u))
                   /\ x \in Range(triage_sessions[sid].symptoms_reported))
                  => r1.resp.code = 200 /\ r1.sessions = triage_sessions

\* AddSymptom has succeeded on a session that now holds the symptom it named
C10_Witness ==
    /\ response.op = "add"
    /\ response.code = 200
    /\ response.symptom_added \in Range(response.symptoms_reported)
    /\ triage_sessions[response.session_id].status = "in_progress"

\* C11: a successful AddSymptom of a symptom not yet reported, on an
\* in_progress session, stores the previous list with the symptom appended
\* and returns that list; this holds for the first symptom and for every
\* later one.
C11_AddAppends ==
    \A u \in ProfiledUsers, sid \in SessionIds, x \in CatalogIds :
       (/\ sid \in InProgressOf(PatientOf(u))
        /\ x \notin Range(triage_sessions[sid].symptoms_reported))
         => LET r == add_symptom_to_session(triage_sessions, symptoms, u, sid, x)
                appended == Append(triage_sessions[sid].symptoms_reported, x)
            IN /\ r.resp.code = 200
               /\ r.sessions[sid].symptoms_reported = appended
               /\ r.resp.symptoms_reported = appended

\* C12: FinalizeSession on a completed session either fails with InvalidState
\* or returns the stored result (the risk score, action, matched red flags and
\* completedAt of the completing call) and does not modify the session record.
C12_RefinalizeReturnsStored ==
    \A u \in ProfiledUsers, sid \in SessionIds, t \in Clock(triage_sessions) :
       sid \in CompletedOf(PatientOf(u))
         => LET r == get_triage_result(triage_sessions, symptoms, red_flags, t, u, sid)
                stored == triage_sessions[sid]
                completing == calculate_risk_score(
                                 SymptomsIn(symptoms, stored.symptoms_reported), red_flags)
            IN \/ r.resp.code = 400
               \/ /\ r.resp.code = 200
                  /\ r.resp.risk_score = Round2(stored.risk_score)
                  /\ r.resp.triage_result = stored.triage_result
                  /\ Len(r.resp.red_flags_triggered) = Len(completing.matched_red_flags)
                  /\ \A i \in 1..Len(r.resp.red_flags_triggered) :
                        r.resp.red_flags_triggered[i].name = completing.matched_red_flags[i].name
                  /\ r.resp.completed_at = stored.completed_at
                  /\ ~r.wrote
                  /\ r.sessions = triage_sessions

(***************************************************************************)
(* Claims about calculate_risk_score, under SpecScore.                     *)
(***************************************************************************)
\* the call of calculate_risk_score has returned
Returned == scoring.returned # NoReturn

\* C13: on the empty symptom list calculate_risk_score returns exactly
\* (0.0, HOME, []) for every catalog, also one with a rule whose
\* symptom_combination is empty; no other input takes this short cut: a
\* non-empty list has a positive score and is matched against the catalog.
C13_EmptyListShortCircuit ==
    Returned =>
      /\ scoring.symptoms = <<>>
           => scoring.returned = [risk_score |-> FZero, triage_result |-> "Home",
                                  matched_red_flags |-> <<>>]
      /\ scoring.symptoms # <<>>
           => /\ scoring.returned.risk_score # FZero
              /\ \A i \in 1..Len(scoring.red_flags) :
                    scoring.red_flags[i].symptom_combination = <<>>
                      => scoring.red_flags[i] \in Range(scoring.returned.matched_red_flags)

\* the empty list was scored against a catalog holding a rule with an empty
\* symptom_combination and a rule of another action
C13_Witness ==
    /\ Returned
    /\ scoring.symptoms = <<>>
    /\ \E i, j \in 1..Len(scoring.red_flags) :
          /\ scoring.red_flags[i].symptom_combination = <<>>
          /\ scoring.red_flags[j].trigger_action = "ER"

\* the tier weights as the specification states them
TierWeight(level) == CASE level = "low" -> 1
                       [] level = "medium" -> 2
                       [] level = "high" -> 3
                       [] level = "critical" -> 5

WeightedTotal(syms) ==
    SumSeq([i \in 1..Len(syms) |-> syms[i].severity * TierWeight(syms[i].risk_level)])

\* the double nearest to min(100, 2 * total / count)
TwiceAverage(total, count) ==
    IF 2 * total >= 100 * count THEN FromInt(100) ELSE FDiv(FromInt(2 * total), count)

\* min(100, 2 * total / count) in hundredths, ties to even
ExactHundredths(total, count) ==
    LET q == (200 * total) \div count
        rem2 == 2 * ((200 * total) % count)
    IN  IF q >= 10000 THEN 10000
        ELSE IF rem2 > count \/ (rem2 = count /\ q % 2 = 1) THEN q + 1 ELSE q

RECURSIVE DecLimbs(_)
DecLimbs(N) ==
    IF Head(N) > 0 THEN <<Head(N) - 1>> \o Tail(N) ELSE <<Base - 1>> \o DecLimbs(Tail(N))

\* the next double above and below a positive double
FSucc(x) ==
    LET m == IncLimbs(x.m)
    IN  IF m[MantissaLimbs] = 2 * TopLimb
        THEN [m |-> [m EXCEPT ![MantissaLimbs] = TopLimb], e |-> x.e + 1]
        ELSE [m |-> m, e |-> x.e]

FPred(x) ==
    IF x.m = Zeros(MantissaLimbs - 1) \o <<TopLimb>>
    THEN [m |-> [i \in 1..MantissaLimbs |->
                   IF i = MantissaLimbs THEN 2 * TopLimb - 1 ELSE Base - 1],
          e |-> x.e - 1]
    ELSE [m |-> DecLimbs(x.m), e |-> x.e]

RECURSIVE Deduplicated(_)
Deduplicated(syms) ==
    IF syms = <<>> THEN <<>>
    ELSE LET front == Deduplicated(SubSeq(syms, 1, Len(syms) - 1))
             last == syms[Len(syms)]
         IN  IF last \in Range(front) THEN front ELSE Append(front, last)

\* C15: a list holding the same symptom more than once yields the score,
\* action and matched flags of the deduplicated list.
C15_DuplicatesDoNotCount ==
    Returned =>
      calculate_risk_score(Deduplicated(scoring.symptoms), scoring.red_flags)
        = scoring.returned

Perms(n) == {p \in [1..n -> 1..n] : \A i, j \in 1..n : p[i] = p[j] => i = j}

Permuted(seq, p) == [i \in 1..Len(seq) |-> seq[p[i]]]

\* C16: every permutation of a symptom list yields the same score, action and
\* matched list, the catalog being fixed.
C16_OrderIndependent ==
    Returned =>
      \A p \in Perms(Len(scoring.symptoms)) :
         calculate_risk_score(Permuted(scoring.symptoms, p), scoring.red_flags)
           = scoring.returned

\* three symptoms of different weights, not in the order of their
\* identifiers, were scored and a rule matched
C16_Witness ==
    /\ Returned
    /\ Len(scoring.symptoms) = 3
    /\ Cardinality({TierWeight(scoring.symptoms[i].risk_level) : i \in 1..3}) = 3
    /\ scoring.symptoms[1].id > scoring.symptoms[2].id
    /\ scoring.returned.matched_red_flags # <<>>

\* the matched rules whose priority is the highest among the matched rules
TopRules(matched) ==
    {matched[i] : i \in {k \in 1..Len(matched) :
                            \A j \in 1..Len(matched) : matched[j].priority <= matched[k].priority}}

\* C17: when a rule matches, the action is the trigger_action of a matched rule
\* of the highest priority among the matched rules, in whatever order the
\* catalog lists the rules: where the rules of highest priority agree on the
\* action (rules of priority 1 and 3, in either order), every order of the
\* catalog returns that action.
C17_HighestPriorityWins ==
    (Returned /\ scoring.returned.matched_red_flags # <<>>)
      => /\ \E rf \in TopRules(scoring.returned.matched_red_flags) :
               scoring.returned.triage_result = rf.trigger_action
         /\ \A p \in Perms(Len(scoring.red_flags)) :
               LET again == calculate_risk_score(scoring.symptoms,
                                                 Permuted(scoring.red_flags, p))
                   top == TopRules(again.matched_red_flags)
               IN  /\ top = TopRules(scoring.returned.matched_red_flags)
                   /\ \E rf \in top : again.triage_result = rf.trigger_action
                   /\ Cardinality({rf.trigger_action : rf \in top}) = 1
                        => again.triage_result = scoring.returned.triage_result

\* a rule of priority 1 listed before a rule of priority 3 with another action,
\* both matched, and the action of the second returned
C17_Witness ==
    /\ Returned
    /\ Len(scoring.returned.matched_red_flags) = 2
    /\ scoring.returned.matched_red_flags[1].priority = 1
    /\ scoring.returned.matched_red_flags[2].priority = 3
    /\ scoring.returned.matched_red_flags[1].trigger_action
         # scoring.returned.matched_red_flags[2].trigger_action
    /\ scoring.returned.triage_result = scoring.returned.matched_red_flags[2].trigger_action

\* C18: with no matching rule the action is ER exactly when the score is at
\* least 70, CLINIC exactly when it is at least 40 and below 70, HOME exactly
\* when it is below 40; a score of exactly 70 is ER and of exactly 40 CLINIC.
C18_ScoreBands ==
    (Returned /\ scoring.returned.matched_red_flags = <<>>)
      => LET risk_score == scoring.returned.risk_score
             action == scoring.returned.triage_result
         IN  /\ action = "ER" <=> ~FLess(risk_score, FromInt(70))
             /\ action = "Clinic" <=> (~FLess(risk_score, FromInt(40))
                                        /\ FLess(risk_score, FromInt(70)))
             /\ action = "Home" <=> FLess(risk_score, FromInt(40))
             /\ risk_score = FromInt(70) => action = "ER"
             /\ risk_score = FromInt(40) => action = "Clinic"

\* a list scoring exactly 70 was scored against a catalog none of whose rules
\* matched, and the action is ER
C18_Witness ==
    /\ Returned
    /\ scoring.red_flags # <<>>
    /\ scoring.returned.matched_red_flags = <<>>
    /\ scoring.returned.risk_score = FromInt(70)
    /\ scoring.returned.triage_result = "ER"

\* C19: a matched rule takes precedence over the score in both directions: the
\* action is that of a matched rule, so matched ER rules yield ER where the
\* score alone gives HOME and matched HOME rules yield HOME where the score
\* alone gives ER.
C19_RuleBeatsScore ==
    (Returned /\ scoring.returned.matched_red_flags # <<>>)
      => LET matched == scoring.returned.matched_red_flags
             actions == {matched[i].trigger_action : i \in 1..Len(matched)}
             risk_score == scoring.returned.risk_score
         IN  /\ scoring.returned.triage_result \in actions
             /\ (actions = {"ER"} /\ FLess(risk_score, FromInt(40)))
                  => scoring.returned.triage_result = "ER"
             /\ (actions = {"Home"} /\ ~FLess(risk_score, FromInt(70)))
                  => scoring.returned.triage_result = "Home"

\* a HOME rule matched a list whose score alone gives ER, and HOME is returned
C19_Witness ==
    /\ Returned
    /\ ~FLess(scoring.returned.risk_score, FromInt(70))
    /\ scoring.returned.matched_red_flags # <<>>
    /\ \A i \in 1..Len(scoring.returned.matched_red_flags) :
          scoring.returned.matched_red_flags[i].trigger_action = "Home"
    /\ scoring.returned.triage_result = "Home"

\* C20: for a non-empty list the matched list holds exactly the rules of the
\* catalog whose symptom_combination is a subset (not necessarily proper) of
\* the reported identifiers, each once and in the order of the catalog: all
\* of them, not only the winner, and a rule with an empty symptom_combination
\* always.
C20_MatchedRules ==
    (Returned /\ scoring.symptoms # <<>>)
      => LET ids == {scoring.symptoms[i].id : i \in 1..Len(scoring.symptoms)}
             catalog == scoring.red_flags
             matched == scoring.returned.matched_red_flags
             Matches(rf) == \A k \in 1..Len(rf.symptom_combination) :
                               rf.symptom_combination[k] \in ids
             Position(rf) == CHOOSE i \in 1..Len(catalog) : catalog[i] = rf
         IN  /\ \A k \in 1..Len(matched) : matched[k] \in Range(catalog)
             /\ \A i \in 1..Len(catalog) :
                   Matches(catalog[i]) <=> catalog[i] \in Range(matched)
             /\ \A j, k \in 1..Len(matched) :
                   j < k => Position(matched[j]) < Position(matched[k])
             /\ \A i \in 1..Len(catalog) :
                   catalog[i].symptom_combination = <<>> => catalog[i] \in Range(matched)

\* two rules matched, one naming exactly the reported symptoms and one with an
\* empty symptom_combination, and only one of them gave the action
C20_Witness ==
    /\ Returned
    /\ scoring.symptoms # <<>>
    /\ Len(scoring.returned.matched_red_flags) = 2
    /\ \E i, j \in 1..2 :
          /\ scoring.returned.matched_red_flags[i].symptom_combination = <<>>
          /\ Range(scoring.returned.matched_red_flags[j].symptom_combination)
               = {scoring.symptoms[k].id : k \in 1..Len(scoring.symptoms)}
          /\ scoring.returned.matched_red_flags[i].trigger_action
               # scoring.returned.matched_red_flags[j].trigger_action

\* a float between 0 and 100, both included
InRange(x) == x # NoScore /\ ~FLess(x, FZero) /\ ~FLess(ScoreCap, x)

\* C21: for every non-empty list of symptoms of severity 1 to 10 and every
\* catalog, the risk score calculate_risk_score returns lies in [0, 100], and
\* so does the stored risk_score of every completed session.
C21_ScoreInRange ==
    /\ (Returned /\ scoring.symptoms # <<>>) => InRange(scoring.returned.risk_score)
    /\ \A s \in 1..Len(triage_sessions) :
          triage_sessions[s].status = "completed" => InRange(triage_sessions[s].risk_score)

\* a list of symptoms of severity 10 and level critical was scored: 100
C21_Witness ==
    /\ Returned
    /\ scoring.symptoms # <<>>
    /\ \A i \in 1..Len(scoring.symptoms) : scoring.symptoms[i].severity = MaxSeverity
    /\ scoring.returned.risk_score = ScoreCap

\* C22: StartSession for a patient with no in_progress session (none at all,
\* or only completed ones) creates exactly one session, with an identifier no
\* session has, that patient as owner, no symptoms, status in_progress, no
\* risk_score, no triage_result, and leaves every existing session as it is.
C22_StartCreatesFreshSession ==
    \A u \in ProfiledUsers :
      InProgressOf(PatientOf(u)) = {}
        => \A active \in FirstRows(ActiveSessions(triage_sessions, PatientOf(u))) :
             LET r == start_triage_session(triage_sessions, u, active)
                 n == Len(triage_sessions)
                 created == r.sessions[n + 1]
             IN /\ r.resp.code = 200
                /\ Len(r.sessions) = n + 1
                /\ SubSeq(r.sessions, 1, n) = triage_sessions
                /\ \A i \in 1..n : triage_sessions[i].id # created.id
                /\ created.patient_id = PatientOf(u)
                /\ created.symptoms_reported = <<>>
                /\ created.status = "in_progress"
                /\ created.risk_score = NoScore
                /\ created.triage_result = NoResult
                /\ created.completed_at = NoTime
                /\ r.resp.session_id = created.id
                /\ r.resp.status = "in_progress"
                /\ r.resp.symptoms_reported = <<>>

\* the session just created is the last row, and its owner has a completed
\* session that holds a symptom
C22_Witness ==
    /\ response.op = "start"
    /\ response.detail = "Triage session started"
    /\ response.session_id = Len(triage_sessions)
    /\ \E s \in CompletedOf(triage_sessions[Len(triage_sessions)].patient_id) :
          triage_sessions[s].symptoms_reported # <<>>

\* the positions of the catalog whose rule matches the scored list
MatchedPositions ==
    {i \in 1..Len(scoring.red_flags) :
        Range(scoring.red_flags[i].symptom_combination)
            \subseteq {scoring.symptoms[k].id : k \in 1..Len(scoring.symptoms)}}

\* C26: when several matched rules share the highest priority, the action is
\* the trigger_action of the one the catalog lists first, so the same list and
\* the same catalog in the same order always give the same action.
C26_FirstOfEqualPriorityWins ==
    (Returned /\ scoring.returned.matched_red_flags # <<>>)
      => \E i \in MatchedPositions :
            /\ \A j \in MatchedPositions :
                  scoring.red_flags[j].priority <= scoring.red_flags[i].priority
            /\ \A j \in MatchedPositions :
                  j < i => scoring.red_flags[j].priority < scoring.red_flags[i].priority
            /\ scoring.returned.triage_result = scoring.red_flags[i].trigger_action

\* two matched rules of one priority and two actions; the first one's action,
\* CLINIC, is returned although the other says ER
C26_Witness ==
    /\ Returned
    /\ Len(scoring.returned.matched_red_flags) = 2
    /\ scoring.returned.matched_red_flags[1].priority
         = scoring.returned.matched_red_flags[2].priority
    /\ scoring.returned.matched_red_flags[1].trigger_action = "Clinic"
    /\ scoring.returned.matched_red_flags[2].trigger_action = "ER"
    /\ scoring.returned.triage_result = "Clinic"

\* C27: after any sequence of requests run one at a time, the stored
\* risk_score and triage_result of every completed session are those
\* calculate_risk_score yields for the catalog symptoms its stored
\* symptoms_reported names and the whole red-flag catalog.
C27_StoredResultMatchesStoredSymptoms ==
    \A s \in 1..Len(triage_sessions) :
       triage_sessions[s].status = "completed"
         => LET session == triage_sessions[s]
                named == {session.symptoms_reported[i] :
                             i \in 1..Len(session.symptoms_reported)}
                rows == SelectSeq(symptoms, LAMBDA row : row.id \in named)
                r == calculate_risk_score(rows, red_flags)
            IN /\ session.risk_score = r.risk_score
               /\ session.triage_result = r.triage_result

\* a completed session with a symptom that a rule matches, scored above zero,
\* next to a completed session with no symptom
C27_Witness ==
    /\ \E s \in 1..Len(triage_sessions) :
          /\ triage_sessions[s].status = "completed"
          /\ triage_sessions[s].symptoms_reported # <<>>
          /\ triage_sessions[s].triage_result = "ER"
          /\ FLess(FZero, triage_sessions[s].risk_score)
    /\ \E s \in 1..Len(triage_sessions) :
          /\ triage_sessions[s].status = "completed"
          /\ triage_sessions[s].symptoms_reported = <<>>

\* C28: FinalizeSession by the owner succeeds on an in_progress session
\* whatever symptoms it holds and never changes symptoms_reported; on a
\* session with no symptom it completes the session with risk_score 0,
\* triage_result HOME, no matched red flag and no analyzed symptom.
C28_FinalizeAlwaysSucceeds ==
    \A u \in ProfiledUsers, t \in Clock(triage_sessions) :
      \A sid \in InProgressOf(PatientOf(u)) :
        LET r == get_triage_result(triage_sessions, symptoms, red_flags, t, u, sid)
            before == triage_sessions[sid]
            after == r.sessions[sid]
        IN /\ r.resp.code = 200
           /\ Len(r.sessions) = Len(triage_sessions)
           /\ after.status = "completed"
           /\ after.completed_at = t
           /\ after.symptoms_reported = before.symptoms_reported
           /\ before.symptoms_reported = <<>>
                => /\ after.risk_score = FZero
                   /\ after.triage_result = "Home"
                   /\ r.resp.risk_score = 0
                   /\ r.resp.triage_result = "Home"
                   /\ r.resp.red_flags_triggered = <<>>
                   /\ r.resp.symptoms_analyzed = <<>>

\* a session without symptoms has just been completed with score 0 and HOME
C28_Witness ==
    /\ response.op = "result"
    /\ response.code = 200
    /\ response.risk_score = 0
    /\ response.triage_result = "Home"
    /\ triage_sessions[response.session_id].symptoms_reported = <<>>
    /\ triage_sessions[response.session_id].status = "completed"
    /\ triage_sessions[response.session_id].risk_score = FZero

\* C29: AddSymptom checks ownership, then status, then the symptom: a session
\* that is not the caller's gives 404 whatever the symptom identifier, the
\* caller's completed session gives 400 even for an unknown symptom, the
\* caller's in_progress session gives 404 for an unknown symptom, and a
\* request that fails leaves every session as it is.
C29_AddSymptomCheckOrder ==
    /\ \A u \in ProfiledUsers, sid \in SessionIds, x \in SymptomIds :
          LET r == add_symptom_to_session(triage_sessions, symptoms, u, sid, x)
              owned == sid \in 1..Len(triage_sessions)
                         /\ triage_sessions[sid].patient_id = PatientOf(u)
          IN /\ ~owned => r.resp.code = 404 /\ r.resp.detail = "Triage session not found"
             /\ (owned /\ triage_sessions[sid].status = "completed")
                  => /\ r.resp.code = 400
                     /\ r.resp.detail = "Cannot add symptoms to a completed session"
             /\ (owned /\ triage_sessions[sid].status = "in_progress" /\ x \notin CatalogIds)
                  => r.resp.code = 404 /\ r.resp.detail = "Symptom not found"
    /\ \A u \in Users, sid \in SessionIds, x \in SymptomIds :
          LET r == add_symptom_to_session(triage_sessions, symptoms, u, sid, x)
          IN r.resp.code # 200 => r.sessions = triage_sessions

\* AddSymptom was refused with 400 where one patient's session is completed
\* and the other's in_progress, and requests can name an unknown symptom
C29_Witness ==
    /\ response.op = "add"
    /\ response.code = 400
    /\ SymptomIds \ CatalogIds # {}
    /\ \E p, q \in Patients : p # q /\ CompletedOf(p) # {} /\ InProgressOf(q) # {}

\* the sessions of before are all still there, with their owners, and none
\* but the one at position target differs from what it was
OnlyTouches(before, after, target) ==
    /\ Len(after) >= Len(before)
    /\ \A s \in 1..Len(before) :
          /\ after[s].id = before[s].id
          /\ after[s].patient_id = before[s].patient_id
          /\ s # target => after[s] = before[s]

\* C30: sessions are independent: a StartSession, AddSymptom or
\* FinalizeSession request, successful or not, leaves every session other than
\* the one it names as it was (symptoms_reported, status, risk_score,
\* triage_result, owner); no request deletes a session or changes the owner
\* of one.  StartSession changes no existing session at all.
C30_SessionsAreIndependent ==
    /\ \A u \in Users :
         \A active \in FirstRows(ActiveSessions(triage_sessions, PatientOf(u))) :
            OnlyTouches(triage_sessions,
                        start_triage_session(triage_sessions, u, active).sessions,
                        NoSession)
    /\ \A u \in Users, sid \in SessionIds :
         /\ \A x \in SymptomIds :
               OnlyTouches(triage_sessions,
                           add_symptom_to_session(triage_sessions, symptoms, u, sid, x).sessions,
                           sid)
         /\ \A t \in Clock(triage_sessions) :
               OnlyTouches(triage_sessions,
                           get_triage_result(triage_sessions, symptoms, red_flags,
                                             t, u, sid).sessions,
                           sid)

\* both patients have a session holding a symptom, one of them completed, and
\* the last request completed a session
C30_Witness ==
    /\ Len(triage_sessions) >= 2
    /\ \A p \in Patients :
          \E s \in 1..Len(triage_sessions) :
             /\ triage_sessions[s].patient_id = p
             /\ triage_sessions[s].symptoms_reported # <<>>
    /\ response.op = "result"
    /\ response.code = 200
    /\ \E s \in 1..Len(triage_sessions) : triage_sessions[s].status = "in_progress"

\* both requests have returned
BothReturned == \A i \in Requests : requests[i].pc = "done"

\* C23: when two StartSession requests of one patient are handled step by
\* step (read, commit, read) in any interleaving and both have returned with
\* success, that patient has at most one in_progress session, and the two
\* responses name the same session (two sessions that are both still
\* in_progress are one and the same).
C23_ConcurrentStartsShareSession ==
    LET a == requests[1]
        b == requests[2]
    IN (/\ BothReturned
        /\ a.op = "start" /\ b.op = "start"
        /\ a.u = b.u
        /\ a.resp.code = 200 /\ b.resp.code = 200)
         => /\ Cardinality(InProgressOf(PatientOf(a.u))) <= 1
            /\ (/\ triage_sessions[a.resp.session_id].status = "in_progress"
                /\ triage_sessions[b.resp.session_id].status = "in_progress")
                 => a.resp.session_id = b.resp.session_id

\* C24: when two AddSymptom requests with distinct symptoms for one session
\* are handled step by step in any interleaving and both have returned with
\* success, the stored symptoms_reported of the session holds both symptoms.
C24_ConcurrentAddsBothStored ==
    LET a == requests[1]
        b == requests[2]
    IN (/\ BothReturned
        /\ a.op = "add" /\ b.op = "add"
        /\ a.sid = b.sid
        /\ a.x # b.x
        /\ a.resp.code = 200 /\ b.resp.code = 200)
         => {a.x, b.x} \subseteq Range(triage_sessions[a.sid].symptoms_reported)

\* C25: when an AddSymptom and a FinalizeSession request for one session are
\* handled step by step in any interleaving and both have returned, the
\* session, once completed, stores the risk_score and triage_result of the
\* symptoms it stores: the symptom was added before the scoring and is part
\* of the result, or it is not stored.
C25_AddRacingFinalizeConsistent ==
    \A i, j \in Requests :
       (/\ BothReturned
        /\ requests[i].op = "add" /\ requests[j].op = "result"
        /\ requests[i].sid = requests[j].sid
        /\ requests[j].resp.code = 200)
         => LET session == triage_sessions[requests[j].sid]
                r == calculate_risk_score(
                        SymptomsIn(symptoms, session.symptoms_reported), red_flags)
            IN /\ session.status = "completed"
               /\ session.risk_score = r.risk_score
               /\ session.triage_result = r.triage_result

====
